---- MODULE Spec2Model ----
(***************************************************************************)
(* Model of the two FruitScan notebooks:                                   *)
(*   - dev/Fruitscan_combinados.ipynb ("combinados"): ResNet18, ResNet34   *)
(*     and VGG19 are set up and trained one after another by               *)
(*     entrenar_modelo, then the three state_dicts are saved;              *)
(*   - the single-model notebook ("fruitscan"): one VGG19, the same loop   *)
(*     written at top level, then fruitscan_model.pth is saved.            *)
(*                                                                         *)
(* Tensors are abstracted to integers: every layer group of a network is   *)
(* one integer weight, a batch is one (image, label) pair of integers, the *)
(* network output is the sum of the weights plus the image, the loss is    *)
(* the absolute error.  Autograd, Adam, train/eval mode, no_grad and the   *)
(* DataLoader keep their bookkeeping: requires_grad, .grad accumulation,   *)
(* the optimizer's parameter list and step counter, the module's training  *)
(* flag, the BatchNorm num_batches_tracked buffer, the shuffled iterator.  *)
(***************************************************************************)
EXTENDS Integers, Sequences, FiniteSets, TLC

\* Bounds of the model (not program constants).
MaxEpochs == 2
MaxTrainBatches == 2
MaxValBatches == 2
MaxSeed == 2

VARIABLES
    notebook,        \* which notebook runs
    epochs,          \* epochs
    nTrain,          \* len(train_loader)
    nVal,            \* len(val_loader)
    rng,             \* torch's global random generator state
    pc,              \* position in the notebook
    idx,             \* index of the model being set up / trained / saved
    params,          \* model -> layer -> weight            (instantiated models)
    requires_grad,   \* model -> layer -> BOOLEAN
    grad,            \* model -> (layers whose .grad is not None) -> gradient
    training,        \* model -> module.training
    bn_tracked,      \* model -> BatchNorm num_batches_tracked buffer
    opt,             \* model -> Adam: parameter list, step, exp_avg
    grad_enabled,    \* torch.is_grad_enabled()
    epoch,           \* loop variable of "for epoch in range(epochs)"
    train_iter,      \* batches the train_loader iterator has still to yield
    val_iter,        \* batches the val_loader iterator has still to yield
    batch,           \* images, labels of the current batch
    outputs,         \* outputs of the last forward pass
    graph,           \* whether outputs carries an autograd graph
    loss,            \* loss of the last criterion call
    running_loss,
    val_loss,
    y_true,
    y_pred,
    train_losses,
    val_losses,
    val_accuracies,
    results,         \* model -> what entrenar_modelo returned
    files,           \* file name -> what torch.save wrote
    log              \* history: every criterion evaluation, in order

vars == <<notebook, epochs, nTrain, nVal, rng, pc, idx, params, requires_grad,
          grad, training, bn_tracked, opt, grad_enabled, epoch, train_iter,
          val_iter, batch, outputs, graph, loss, running_loss, val_loss,
          y_true, y_pred, train_losses, val_losses, val_accuracies, results,
          files, log>>

\* Variables of the training loop that the set-up and save cells leave alone.
loopvars == <<epoch, train_iter, val_iter, batch, outputs, graph, loss,
              running_loss, val_loss, y_true, y_pred, train_losses,
              val_losses, val_accuracies>>

modelvars == <<params, requires_grad, grad, training, bn_tracked, opt>>

inputs == <<notebook, epochs, nTrain, nVal>>

----------------------------------------------------------------------------
\* Generic helpers.

Abs(x) == IF x < 0 THEN -x ELSE x

Sgn(x) == IF x > 0 THEN 1 ELSE IF x < 0 THEN -1 ELSE 0

RECURSIVE Gcd(_, _)
Gcd(a, b) == IF b = 0 THEN a ELSE Gcd(b, a % b)

\* Python's true division a / b of a non-negative a by a positive b, kept exact
\* as a fraction in lowest terms.
TrueDiv(a, b) ==
    LET g == Gcd(a, b)
    IN  <<a \div g, b \div g>>

RECURSIVE SumFun(_, _)
SumFun(f, S) ==
    IF S = {} THEN 0
    ELSE LET x == CHOOSE y \in S : TRUE
         IN  f[x] + SumFun(f, S \ {x})

RECURSIVE SumSeq(_)
SumSeq(s) == IF s = <<>> THEN 0 ELSE Head(s) + SumSeq(Tail(s))

Put(f, k, v) == [x \in (DOMAIN f) \cup {k} |-> IF x = k THEN v ELSE f[x]]

Without(f, S) == [x \in (DOMAIN f) \ S |-> f[x]]

Empty == [x \in {} |-> 0]

----------------------------------------------------------------------------
\* The two notebooks and their models.

Notebooks == {"combinados", "fruitscan"}

\* The models a notebook trains, in the order of its cells.
Modelos(nb) ==
    IF nb = "combinados" THEN <<"resnet18", "resnet34", "vgg19">>
    ELSE <<"model">>

Actual == Modelos(notebook)[idx]

Arquitectura(m) == IF m \in {"resnet18", "resnet34"} THEN "resnet" ELSE "vgg"

\* Parameter groups of a network: a ResNet is its convolutional backbone and
\* fc; VGG19 is features and the three Linear layers of classifier.
Layers(m) ==
    IF Arquitectura(m) = "resnet" THEN {"backbone", "fc"}
    ELSE {"features", "classifier0", "classifier3", "classifier6"}

\* The layer the notebook replaces by a new nn.Linear.
CapaFinal(m) == IF Arquitectura(m) = "resnet" THEN "fc" ELSE "classifier6"

\* models.resnet18/resnet34/vgg19(pretrained=True): the downloaded weights.
Pretrained(m) ==
    IF m = "resnet18" THEN [l \in Layers(m) |-> IF l = "backbone" THEN 3 ELSE 7]
    ELSE IF m = "resnet34" THEN [l \in Layers(m) |-> IF l = "backbone" THEN 4 ELSE 7]
    ELSE [l \in Layers(m) |->
            IF l = "features" THEN 5
            ELSE IF l = "classifier0" THEN 1
            ELSE IF l = "classifier3" THEN 2
            ELSE 7]

\* Faulty variant of Congeladas: the freezing loop runs over no parameter.
CongeladasNinguna(m) == {}

\* The parameters the freezing loop runs over: resnet.parameters() (all of
\* them, the original fc included), respectively vgg.features.parameters().
Congeladas(m) ==
    IF Arquitectura(m) = "resnet" THEN Layers(m) ELSE {"features"}

\* The parameters handed to optim.Adam: resnet.fc.parameters(), respectively
\* vgg.classifier.parameters() (all Linear layers of the classifier).
OptimizerParams(m) ==
    IF Arquitectura(m) = "resnet" THEN {"fc"}
    ELSE {"classifier0", "classifier3", "classifier6"}

\* torch's generator: drawing from it advances its state.
NextRng(r) == (5 * r + 3) % 8

\* nn.Linear(...): the new layer's weight is drawn from the generator.
NuevaLineal(r) == (r % 3) - 1

\* DataLoader(train_dataset, shuffle=True): each iterator yields the batches
\* 1..n in an order drawn from the generator.
Shuffle(r, n) == [i \in 1..n |-> ((i + r) % n) + 1]

\* DataLoader(val_dataset, shuffle=False): the batches in order.
InOrder(n) == [i \in 1..n |-> i]

TrainBatch(b) == [images |-> b, labels |-> 2 * b + 2]

ValBatch(b) == [images |-> b + 1, labels |-> b + 4]

\* outputs = model(images)
Forward(m, images) == SumFun(params[m], Layers(m)) + images

\* criterion(outputs, labels) and loss.item()
Criterion(out, labels) == Abs(out - labels)

\* d loss / d weight, the same for every layer of the sum network.
LossGradient(out, labels) == Sgn(out - labels)

\* torch.max(outputs, 1)
Predict(out) == out

\* accuracy_score(y_true, y_pred)
AccuracyScore(yt, yp) ==
    TrueDiv(Cardinality({i \in 1..Len(yt) : yt[i] = yp[i]}), Len(yt))

\* model.state_dict(): parameters and buffers.
StateDict(m) == [params |-> params[m], buffers |-> bn_tracked[m]]

\* The file each torch.save call of the save cell writes.
FileName(nb, i) ==
    IF nb = "combinados"
    THEN <<"model_resnet18.pth", "model_resnet34.pth", "model_vgg19.pth">>[i]
    ELSE "fruitscan_model.pth"

\* Faulty variant of SavedModel: every torch.save call saves the first model.
SavedModelPrimero(nb, i) == Modelos(nb)[1]

\* The model each torch.save call of the save cell saves.
SavedModel(nb, i) == Modelos(nb)[i]

----------------------------------------------------------------------------
Init ==
    /\ notebook \in Notebooks
    /\ epochs \in 1..MaxEpochs
    /\ nTrain \in 1..MaxTrainBatches
    /\ nVal \in 1..MaxValBatches
    /\ rng \in (IF notebook = "fruitscan" THEN {42 % 8} ELSE 0..MaxSeed)
    /\ pc = "load"
    /\ idx = 1
    /\ params = Empty
    /\ requires_grad = Empty
    /\ grad = Empty
    /\ training = Empty
    /\ bn_tracked = Empty
    /\ opt = Empty
    /\ grad_enabled = TRUE
    /\ epoch = -1
    /\ train_iter = <<>>
    /\ val_iter = <<>>
    /\ batch = [images |-> 0, labels |-> 0]
    /\ outputs = 0
    /\ graph = FALSE
    /\ loss = 0
    /\ running_loss = 0
    /\ val_loss = <<0, 1>>
    /\ y_true = <<>>
    /\ y_pred = <<>>
    /\ train_losses = <<>>
    /\ val_losses = <<>>
    /\ val_accuracies = <<>>
    /\ results = Empty
    /\ files = Empty
    /\ log = <<>>

----------------------------------------------------------------------------
\* Set-up of one model (Paso 5 of combinados, Paso 3 and 4 of fruitscan).

\* models.<arch>(pretrained=True): a new module, in training mode, every
\* parameter requiring grad and without a gradient.
CargarPreentrenado ==
    /\ pc = "load"
    /\ params' = Put(params, Actual, Pretrained(Actual))
    /\ requires_grad' = Put(requires_grad, Actual, [l \in Layers(Actual) |-> TRUE])
    /\ grad' = Put(grad, Actual, Empty)
    /\ training' = Put(training, Actual, TRUE)
    /\ bn_tracked' = Put(bn_tracked, Actual, 0)
    /\ pc' = "freeze"
    /\ UNCHANGED <<inputs, rng, idx, opt, grad_enabled, loopvars, results, files, log>>

\* for param in ...parameters(): param.requires_grad = False
Congelar ==
    /\ pc = "freeze"
    /\ requires_grad' = [requires_grad EXCEPT ![Actual] =
            [l \in Layers(Actual) |-> IF l \in Congeladas(Actual) THEN FALSE ELSE @[l]]]
    /\ pc' = "replace"
    /\ UNCHANGED <<inputs, rng, idx, params, grad, training, bn_tracked, opt,
                   grad_enabled, loopvars, results, files, log>>

\* resnet.fc = nn.Linear(...), respectively classifier[6] = nn.Linear(...): a
\* new parameter, randomly initialised, requiring grad.
ReemplazarCapaFinal ==
    /\ pc = "replace"
    /\ params' = [params EXCEPT ![Actual][CapaFinal(Actual)] = NuevaLineal(rng)]
    /\ requires_grad' = [requires_grad EXCEPT ![Actual][CapaFinal(Actual)] = TRUE]
    /\ rng' = NextRng(rng)
    /\ pc' = "optim"
    /\ UNCHANGED <<inputs, idx, grad, training, bn_tracked, opt, grad_enabled,
                   loopvars, results, files, log>>

\* optimizer = optim.Adam(<parameters>, lr=0.001)
CrearOptimizador ==
    /\ pc = "optim"
    /\ opt' = Put(opt, Actual, [params |-> OptimizerParams(Actual),
                                step |-> 0,
                                exp_avg |-> [l \in OptimizerParams(Actual) |-> 0]])
    /\ pc' = "call"
    /\ UNCHANGED <<inputs, rng, idx, params, requires_grad, grad, training,
                   bn_tracked, grad_enabled, loopvars, results, files, log>>

----------------------------------------------------------------------------
\* entrenar_modelo (combinados) and the loop of Paso 5 (fruitscan).

\* model = model.to(device); train_losses, val_losses, val_accuracies = [], [], []
LlamarEntrenar ==
    /\ pc = "call"
    /\ train_losses' = <<>>
    /\ val_losses' = <<>>
    /\ val_accuracies' = <<>>
    /\ epoch' = -1
    /\ pc' = "for_epoch"
    /\ UNCHANGED <<inputs, rng, idx, modelvars, grad_enabled, train_iter, val_iter,
                   batch, outputs, graph, loss, running_loss, val_loss, y_true,
                   y_pred, results, files, log>>

\* Faulty variant of HayOtraEpoca: the loop runs one epoch more.
HayOtraEpocaDeMas(e) == e + 1 <= epochs

\* range(epochs) has another value to yield after `e`.
HayOtraEpoca(e) == e + 1 < epochs

\* for epoch in range(epochs): the next epoch, or the end of the loop (which
\* in entrenar_modelo is followed by the return, in fruitscan by the save).
ForEpoch ==
    /\ pc = "for_epoch"
    /\ \/ /\ HayOtraEpoca(epoch)
          /\ epoch' = epoch + 1
          /\ pc' = "train_mode"
       \/ /\ ~HayOtraEpoca(epoch)
          /\ epoch' = epoch
          /\ pc' = IF notebook = "combinados" THEN "return" ELSE "save"
    /\ UNCHANGED <<inputs, rng, idx, modelvars, grad_enabled, train_iter, val_iter,
                   batch, outputs, graph, loss, running_loss, val_loss, y_true,
                   y_pred, train_losses, val_losses, val_accuracies, results,
                   files, log>>

\* Faulty variant of ModelTrain: running_loss is not reset at the start of the epoch.
ModelTrainSinReset ==
    /\ pc = "train_mode"
    /\ training' = [training EXCEPT ![Actual] = TRUE]
    /\ pc' = "iter_train"
    /\ UNCHANGED <<inputs, rng, idx, params, requires_grad, grad, bn_tracked, opt,
                   grad_enabled, epoch, train_iter, val_iter, batch, outputs,
                   graph, loss, running_loss, val_loss, y_true, y_pred,
                   train_losses, val_losses, val_accuracies, results, files, log>>

\* model.train(); running_loss = 0.0
ModelTrain ==
    /\ pc = "train_mode"
    /\ training' = [training EXCEPT ![Actual] = TRUE]
    /\ running_loss' = 0
    /\ pc' = "iter_train"
    /\ UNCHANGED <<inputs, rng, idx, params, requires_grad, grad, bn_tracked, opt,
                   grad_enabled, epoch, train_iter, val_iter, batch, outputs,
                   graph, loss, val_loss, y_true, y_pred, train_losses,
                   val_losses, val_accuracies, results, files, log>>

\* iter(train_loader): a new shuffled pass over the training batches.
IterTrain ==
    /\ pc = "iter_train"
    /\ train_iter' = Shuffle(rng, nTrain)
    /\ rng' = NextRng(rng)
    /\ pc' = "for_train"
    /\ UNCHANGED <<inputs, idx, modelvars, grad_enabled, epoch, val_iter, batch,
                   outputs, graph, loss, running_loss, val_loss, y_true, y_pred,
                   train_losses, val_losses, val_accuracies, results, files, log>>

\* for images, labels in train_loader: the next batch, or the end of the loop.
ForTrain ==
    /\ pc = "for_train"
    /\ \/ /\ train_iter # <<>>
          /\ batch' = TrainBatch(Head(train_iter))
          /\ train_iter' = Tail(train_iter)
          /\ pc' = "zero_grad"
       \/ /\ train_iter = <<>>
          /\ UNCHANGED <<batch, train_iter>>
          /\ pc' = "train_avg"
    /\ UNCHANGED <<inputs, rng, idx, modelvars, grad_enabled, epoch, val_iter,
                   outputs, graph, loss, running_loss, val_loss, y_true, y_pred,
                   train_losses, val_losses, val_accuracies, results, files, log>>

\* Faulty variant of ZeroGrad: the gradients are not reset.
ZeroGradOmitido ==
    /\ pc = "zero_grad"
    /\ pc' = "forward"
    /\ UNCHANGED <<inputs, rng, idx, modelvars, grad_enabled, loopvars, results,
                   files, log>>

\* optimizer.zero_grad(): the gradient of every parameter of the optimizer is
\* reset (to None).
ZeroGrad ==
    /\ pc = "zero_grad"
    /\ grad' = [grad EXCEPT ![Actual] = Without(@, opt[Actual].params)]
    /\ pc' = "forward"
    /\ UNCHANGED <<inputs, rng, idx, params, requires_grad, training, bn_tracked,
                   opt, grad_enabled, loopvars, results, files, log>>

\* outputs = model(images) in the training loop.  In training mode the
\* BatchNorm layers of a ResNet count the batch in num_batches_tracked.
ForwardTrain ==
    /\ pc = "forward"
    /\ outputs' = Forward(Actual, batch.images)
    /\ graph' = grad_enabled
    /\ bn_tracked' = [bn_tracked EXCEPT ![Actual] =
            IF training[Actual] /\ Arquitectura(Actual) = "resnet" THEN @ + 1 ELSE @]
    /\ pc' = "criterion"
    /\ UNCHANGED <<inputs, rng, idx, params, requires_grad, grad, training, opt,
                   grad_enabled, epoch, train_iter, val_iter, batch, loss,
                   running_loss, val_loss, y_true, y_pred, train_losses,
                   val_losses, val_accuracies, results, files, log>>

\* loss = criterion(outputs, labels) in the training loop.
CriterionTrain ==
    /\ pc = "criterion"
    /\ loss' = Criterion(outputs, batch.labels)
    /\ log' = Append(log, [model |-> Actual, epoch |-> epoch, phase |-> "train",
                           images |-> batch.images,
                           loss |-> Criterion(outputs, batch.labels)])
    /\ pc' = "backward"
    /\ UNCHANGED <<inputs, rng, idx, modelvars, grad_enabled, epoch, train_iter,
                   val_iter, batch, outputs, graph, running_loss, val_loss,
                   y_true, y_pred, train_losses, val_losses, val_accuracies,
                   results, files>>

\* loss.backward(): the gradient of the loss is ADDED to the .grad of every
\* parameter that requires grad (a .grad of None counts as zero).
Backward ==
    /\ pc = "backward"
    /\ graph
    /\ grad' = [grad EXCEPT ![Actual] =
            [l \in (DOMAIN @) \cup {k \in Layers(Actual) : requires_grad[Actual][k]} |->
                IF ~requires_grad[Actual][l] THEN @[l]
                ELSE (IF l \in DOMAIN @ THEN @[l] ELSE 0)
                     + LossGradient(outputs, batch.labels)]]
    /\ graph' = FALSE
    /\ pc' = "step"
    /\ UNCHANGED <<inputs, rng, idx, params, requires_grad, training, bn_tracked,
                   opt, grad_enabled, epoch, train_iter, val_iter, batch, outputs,
                   loss, running_loss, val_loss, y_true, y_pred, train_losses,
                   val_losses, val_accuracies, results, files, log>>

\* The parameters an optimizer step updates: those of its parameter list that
\* have a gradient.
StepTargets(m) == {l \in opt[m].params : l \in DOMAIN grad[m]}

\* Adam's first moment after step t (beta1 = 0.9), scaled by 10^t to stay
\* integral: m_t = 0.9 m_(t-1) + 0.1 g.
AdamExpAvg(m_prev, g, t) == 9 * m_prev + (10 ^ (t - 1)) * g

\* Adam's update of one weight: a step of lr against the sign of the first
\* moment (the step's size, lr / (sqrt(v) + eps), is abstracted to 1).
AdamUpdate(p, m_new) == p - Sgn(m_new)

\* optimizer.step()
OptimizerStep ==
    /\ pc = "step"
    /\ LET m == Actual
           t == opt[m].step + 1
           ea == [l \in opt[m].params |->
                    IF l \in StepTargets(m)
                    THEN AdamExpAvg(opt[m].exp_avg[l], grad[m][l], t)
                    ELSE opt[m].exp_avg[l]]
       IN  /\ opt' = [opt EXCEPT ![m] = [params |-> @.params, step |-> t, exp_avg |-> ea]]
           /\ params' = [params EXCEPT ![m] =
                    [l \in Layers(m) |->
                        IF l \in StepTargets(m) THEN AdamUpdate(@[l], ea[l]) ELSE @[l]]]
    /\ pc' = "accum"
    /\ UNCHANGED <<inputs, rng, idx, requires_grad, grad, training, bn_tracked,
                   grad_enabled, loopvars, results, files, log>>

\* running_loss += loss.item()
AcumularLoss ==
    /\ pc = "accum"
    /\ running_loss' = running_loss + loss
    /\ pc' = "for_train"
    /\ UNCHANGED <<inputs, rng, idx, modelvars, grad_enabled, epoch, train_iter,
                   val_iter, batch, outputs, graph, loss, val_loss, y_true, y_pred,
                   train_losses, val_losses, val_accuracies, results, files, log>>

\* Faulty variant of TrainAvg: train_losses is overwritten instead of appended to.
TrainAvgSobrescribe ==
    /\ pc = "train_avg"
    /\ train_losses' = <<TrueDiv(running_loss, nTrain)>>
    /\ pc' = "eval_mode"
    /\ UNCHANGED <<inputs, rng, idx, modelvars, grad_enabled, epoch, train_iter,
                   val_iter, batch, outputs, graph, loss, running_loss, val_loss,
                   y_true, y_pred, val_losses, val_accuracies, results, files, log>>

\* train_loss = running_loss / len(train_loader); train_losses.append(train_loss)
TrainAvg ==
    /\ pc = "train_avg"
    /\ train_losses' = Append(train_losses, TrueDiv(running_loss, nTrain))
    /\ pc' = "eval_mode"
    /\ UNCHANGED <<inputs, rng, idx, modelvars, grad_enabled, epoch, train_iter,
                   val_iter, batch, outputs, graph, loss, running_loss, val_loss,
                   y_true, y_pred, val_losses, val_accuracies, results, files, log>>

\* val_loss += k, for a val_loss kept as an exact fraction.
FracAdd(f, k) == TrueDiv(f[1] + k * f[2], f[2])

\* val_loss /= n
FracDiv(f, n) == TrueDiv(f[1], f[2] * n)

\* Faulty variant of ModelEval: the model is not switched to evaluation mode.
ModelEvalOmitido ==
    /\ pc = "eval_mode"
    /\ val_loss' = <<0, 1>>
    /\ y_true' = <<>>
    /\ y_pred' = <<>>
    /\ pc' = "no_grad"
    /\ UNCHANGED <<inputs, rng, idx, modelvars, grad_enabled, epoch, train_iter,
                   val_iter, batch, outputs, graph, loss, running_loss,
                   train_losses, val_losses, val_accuracies, results, files, log>>

\* model.eval(); val_loss = 0.0; y_true, y_pred = [], []
ModelEval ==
    /\ pc = "eval_mode"
    /\ training' = [training EXCEPT ![Actual] = FALSE]
    /\ val_loss' = <<0, 1>>
    /\ y_true' = <<>>
    /\ y_pred' = <<>>
    /\ pc' = "no_grad"
    /\ UNCHANGED <<inputs, rng, idx, params, requires_grad, grad, bn_tracked, opt,
                   grad_enabled, epoch, train_iter, val_iter, batch, outputs,
                   graph, loss, running_loss, train_losses, val_losses,
                   val_accuracies, results, files, log>>

\* with torch.no_grad():
EnterNoGrad ==
    /\ pc = "no_grad"
    /\ grad_enabled' = FALSE
    /\ pc' = "iter_val"
    /\ UNCHANGED <<inputs, rng, idx, modelvars, loopvars, results, files, log>>

\* iter(val_loader): a new pass over the validation batches, in order.
IterVal ==
    /\ pc = "iter_val"
    /\ val_iter' = InOrder(nVal)
    /\ pc' = "for_val"
    /\ UNCHANGED <<inputs, rng, idx, modelvars, grad_enabled, epoch, train_iter,
                   batch, outputs, graph, loss, running_loss, val_loss, y_true,
                   y_pred, train_losses, val_losses, val_accuracies, results,
                   files, log>>

\* for images, labels in val_loader: the next batch, or the end of the loop,
\* which leaves the no_grad block.
ForVal ==
    /\ pc = "for_val"
    /\ \/ /\ val_iter # <<>>
          /\ batch' = ValBatch(Head(val_iter))
          /\ val_iter' = Tail(val_iter)
          /\ pc' = "val_forward"
          /\ UNCHANGED grad_enabled
       \/ /\ val_iter = <<>>
          /\ grad_enabled' = TRUE
          /\ pc' = "val_avg"
          /\ UNCHANGED <<batch, val_iter>>
    /\ UNCHANGED <<inputs, rng, idx, modelvars, epoch, train_iter, outputs, graph,
                   loss, running_loss, val_loss, y_true, y_pred, train_losses,
                   val_losses, val_accuracies, results, files, log>>

\* outputs = model(images) in the validation loop.
ForwardVal ==
    /\ pc = "val_forward"
    /\ outputs' = Forward(Actual, batch.images)
    /\ graph' = grad_enabled
    /\ bn_tracked' = [bn_tracked EXCEPT ![Actual] =
            IF training[Actual] /\ Arquitectura(Actual) = "resnet" THEN @ + 1 ELSE @]
    /\ pc' = "val_criterion"
    /\ UNCHANGED <<inputs, rng, idx, params, requires_grad, grad, training, opt,
                   grad_enabled, epoch, train_iter, val_iter, batch, loss,
                   running_loss, val_loss, y_true, y_pred, train_losses,
                   val_losses, val_accuracies, results, files, log>>

\* loss = criterion(outputs, labels) in the validation loop.
CriterionVal ==
    /\ pc = "val_criterion"
    /\ loss' = Criterion(outputs, batch.labels)
    /\ log' = Append(log, [model |-> Actual, epoch |-> epoch, phase |-> "val",
                           images |-> batch.images,
                           loss |-> Criterion(outputs, batch.labels)])
    /\ pc' = "val_accum"
    /\ UNCHANGED <<inputs, rng, idx, modelvars, grad_enabled, epoch, train_iter,
                   val_iter, batch, outputs, graph, running_loss, val_loss,
                   y_true, y_pred, train_losses, val_losses, val_accuracies,
                   results, files>>

\* val_loss += loss.item()
AcumularValLoss ==
    /\ pc = "val_accum"
    /\ val_loss' = FracAdd(val_loss, loss)
    /\ pc' = "val_pred"
    /\ UNCHANGED <<inputs, rng, idx, modelvars, grad_enabled, epoch, train_iter,
                   val_iter, batch, outputs, graph, loss, running_loss, y_true,
                   y_pred, train_losses, val_losses, val_accuracies, results,
                   files, log>>

\* _, preds = torch.max(outputs, 1); y_true.extend(labels); y_pred.extend(preds)
\* (fruitscan counts total and correct instead, the same information).
Predecir ==
    /\ pc = "val_pred"
    /\ y_true' = Append(y_true, batch.labels)
    /\ y_pred' = Append(y_pred, Predict(outputs))
    /\ pc' = "for_val"
    /\ UNCHANGED <<inputs, rng, idx, modelvars, grad_enabled, epoch, train_iter,
                   val_iter, batch, outputs, graph, loss, running_loss, val_loss,
                   train_losses, val_losses, val_accuracies, results, files, log>>

\* val_loss /= len(val_loader); accuracy = ...; val_losses.append(val_loss);
\* in entrenar_modelo also val_accuracies.append(accuracy).
ValAvg ==
    /\ pc = "val_avg"
    /\ val_loss' = FracDiv(val_loss, nVal)
    /\ val_losses' = Append(val_losses, FracDiv(val_loss, nVal))
    /\ val_accuracies' = IF notebook = "combinados"
                         THEN Append(val_accuracies, AccuracyScore(y_true, y_pred))
                         ELSE val_accuracies
    /\ pc' = "print"
    /\ UNCHANGED <<inputs, rng, idx, modelvars, grad_enabled, epoch, train_iter,
                   val_iter, batch, outputs, graph, loss, running_loss, y_true,
                   y_pred, train_losses, results, files, log>>

\* print(f"Epoch {epoch+1}/{epochs} ..."): the end of the epoch.
PrintEpoch ==
    /\ pc = "print"
    /\ pc' = "for_epoch"
    /\ UNCHANGED <<inputs, rng, idx, modelvars, grad_enabled, loopvars, results,
                   files, log>>

\* Faulty variant of DespuesDeEntrenar: the save cell runs right after each training.
DespuesDeEntrenarGuardar(i) == [pc |-> "save", idx |-> i]

\* What follows the training of model i in combinados: the set-up of the next
\* model, or (after the plots) the save cell.
DespuesDeEntrenar(i) ==
    IF i < Len(Modelos(notebook)) THEN [pc |-> "load", idx |-> i + 1]
    ELSE [pc |-> "save", idx |-> 1]

\* return model, train_losses, val_losses, val_accuracies, y_true, y_pred
Return ==
    /\ pc = "return"
    /\ results' = Put(results, Actual,
                      [train_losses |-> train_losses, val_losses |-> val_losses,
                       val_accuracies |-> val_accuracies,
                       y_true |-> y_true, y_pred |-> y_pred])
    /\ pc' = DespuesDeEntrenar(idx).pc
    /\ idx' = DespuesDeEntrenar(idx).idx
    /\ UNCHANGED <<inputs, rng, modelvars, grad_enabled, loopvars, files, log>>

----------------------------------------------------------------------------
\* Paso 8 (combinados), Paso 7 (fruitscan): saving.

\* torch.save(obj, name): the file is created or overwritten; `writes` counts
\* how often the file has been written.
TorchSave(fs, name, obj) ==
    Put(fs, name, [data |-> obj,
                   writes |-> IF name \in DOMAIN fs THEN fs[name].writes + 1 ELSE 1])

\* torch.save(<model>.state_dict(), "<file>.pth"), one call per model.
Guardar ==
    /\ pc = "save"
    /\ files' = TorchSave(files, FileName(notebook, idx),
                          StateDict(SavedModel(notebook, idx)))
    /\ \/ /\ idx < Len(Modelos(notebook))
          /\ idx' = idx + 1
          /\ pc' = "save"
       \/ /\ idx = Len(Modelos(notebook))
          /\ idx' = idx
          /\ pc' = "done"
    /\ UNCHANGED <<inputs, rng, modelvars, grad_enabled, loopvars, results, log>>

\* Any statement may raise; nothing catches it, so the notebook stops there
\* (leaving a no_grad block restores the grad mode).
Excepcion ==
    /\ pc \notin {"done", "failed"}
    /\ pc' = "failed"
    /\ grad_enabled' = TRUE
    /\ UNCHANGED <<inputs, rng, idx, modelvars, loopvars, results, files, log>>

Next ==
    \/ CargarPreentrenado
    \/ Congelar
    \/ ReemplazarCapaFinal
    \/ CrearOptimizador
    \/ LlamarEntrenar
    \/ ForEpoch
    \/ ModelTrain
    \/ IterTrain
    \/ ForTrain
    \/ ZeroGrad
    \/ ForwardTrain
    \/ CriterionTrain
    \/ Backward
    \/ OptimizerStep
    \/ AcumularLoss
    \/ TrainAvg
    \/ ModelEval
    \/ EnterNoGrad
    \/ IterVal
    \/ ForVal
    \/ ForwardVal
    \/ CriterionVal
    \/ AcumularValLoss
    \/ Predecir
    \/ ValAvg
    \/ PrintEpoch
    \/ Return
    \/ Guardar
    \/ Excepcion

Spec == Init /\ [][Next]_vars

\* The notebook's kernel keeps executing statements until the notebook ends or
\* a statement raises.
FairSpec == Spec /\ WF_vars(Next)

----------------------------------------------------------------------------
\* Vocabulary of the properties.

Terminated == pc \in {"done", "failed"}

\* Positions inside the body of the training-batch loop.
TrainBatchPcs == {"zero_grad", "forward", "criterion", "backward", "step", "accum"}

\* Positions inside the body of the validation-batch loop.
ValBatchPcs == {"val_forward", "val_criterion", "val_accum", "val_pred"}

\* Positions of the validation phase of an epoch.
ValPhasePcs == {"eval_mode", "no_grad", "iter_val", "for_val", "val_avg"} \cup ValBatchPcs

\* Positions inside the epoch loop.
LoopPcs == {"for_epoch", "train_mode", "iter_train", "for_train", "train_avg",
            "print", "return"} \cup TrainBatchPcs \cup ValPhasePcs

\* The models of the notebook that have been instantiated.
Instanciados == DOMAIN params

\* The criterion evaluations of model m in epoch e and phase ph, in order.
Evaluaciones(m, e, ph) ==
    SelectSeq(log, LAMBDA r : r.model = m /\ r.epoch = e /\ r.phase = ph)

\* The batches those evaluations were made on.
Batches(m, e, ph) ==
    LET ev == Evaluaciones(m, e, ph)
    IN  {ev[i].images : i \in 1..Len(ev)}

SumaLosses(m, e, ph) ==
    LET ev == Evaluaciones(m, e, ph)
    IN  SumSeq([i \in 1..Len(ev) |-> ev[i].loss])

IsPrefix(s, t) == Len(s) <= Len(t) /\ SubSeq(t, 1, Len(s)) = s

\* The number of optimizer steps a complete training of one model takes.
PasosTotales == epochs * nTrain

----------------------------------------------------------------------------
\* C1: in every model that has been instantiated, every parameter outside the
\* new final classification layer (resnet.fc, classifier[6]) still has its
\* pretrained value, whatever number of optimizer steps has run.
C1_SoloCapaFinalEntrenada ==
    \A m \in Instanciados :
        \A l \in Layers(m) \ {CapaFinal(m)} : params[m][l] = Pretrained(m)[l]

\* C2: once a model is set up, its frozen parameters (requires_grad = False)
\* are exactly the non-fc parameters of a ResNet, respectively the `features`
\* parameters of VGG19, and in every state every frozen parameter has its
\* pretrained value.
C2_CongeladosIntactos ==
    \A m \in Instanciados :
        /\ m \in DOMAIN opt =>
             {l \in Layers(m) : ~requires_grad[m][l]}
               = (IF Arquitectura(m) = "resnet" THEN Layers(m) \ {"fc"} ELSE {"features"})
        /\ \A l \in Layers(m) :
             ~requires_grad[m][l] => params[m][l] = Pretrained(m)[l]

\* C2 witness: a frozen parameter of a model on which optimizer steps have
\* run and changed the trainable parameters.
C2_Witness ==
    /\ "vgg19" \in DOMAIN opt
    /\ opt["vgg19"].step >= 2
    /\ ~requires_grad["vgg19"]["features"]
    /\ params["vgg19"]["classifier6"] # Pretrained("vgg19")["classifier6"]
    /\ "resnet18" \in DOMAIN opt
    /\ opt["resnet18"].step >= 2

\* C3: in entrenar_modelo, no statement but the call's initialisation removes
\* or overwrites an element of train_losses, val_losses or val_accuracies and
\* each statement appends at most one; at the end of the k-th epoch each list
\* has exactly k elements; the three lists returned have exactly `epochs`
\* elements each.
C3_Paso ==
    notebook = "combinados" =>
        /\ pc # "call" =>
             /\ IsPrefix(train_losses, train_losses')
             /\ IsPrefix(val_losses, val_losses')
             /\ IsPrefix(val_accuracies, val_accuracies')
             /\ Len(train_losses') <= Len(train_losses) + 1
             /\ Len(val_losses') <= Len(val_losses) + 1
             /\ Len(val_accuracies') <= Len(val_accuracies) + 1
        /\ pc' = "print" =>
             /\ Len(train_losses') = epoch' + 1
             /\ Len(val_losses') = epoch' + 1
             /\ Len(val_accuracies') = epoch' + 1
        /\ \A m \in DOMAIN results' :
             /\ Len(results'[m].train_losses) = epochs
             /\ Len(results'[m].val_losses) = epochs
             /\ Len(results'[m].val_accuracies) = epochs

\* C3: every step of a run keeps the three lists of entrenar_modelo as stated
\* above: append-only, one element per epoch, `epochs` elements when returned.
C3_ListasPorEpoca == [][C3_Paso]_vars

\* C3 witness: a call with more than one epoch has returned its lists.
C3_Witness ==
    /\ notebook = "combinados"
    /\ epochs >= 2
    /\ "resnet34" \in DOMAIN results
    /\ Len(results["resnet34"].val_accuracies) = epochs

\* C4 (state part): an optimizer never runs more than epochs x len(train_loader)
\* steps; at the end of epoch k it has run exactly k x len(train_loader) steps,
\* and that epoch has evaluated the criterion exactly once on each training
\* batch and exactly once on each validation batch; when the loop has ended
\* the optimizer has run exactly epochs x len(train_loader) steps.
C4_Estado ==
    /\ \A m \in DOMAIN opt : opt[m].step <= PasosTotales
    /\ pc = "print" =>
         /\ opt[Actual].step = (epoch + 1) * nTrain
         /\ Len(Evaluaciones(Actual, epoch, "train")) = nTrain
         /\ Batches(Actual, epoch, "train") = {TrainBatch(b).images : b \in 1..nTrain}
         /\ Len(Evaluaciones(Actual, epoch, "val")) = nVal
         /\ Batches(Actual, epoch, "val") = {ValBatch(b).images : b \in 1..nVal}
    /\ pc = "return" => opt[Actual].step = PasosTotales /\ epoch = epochs - 1
    /\ \A m \in DOMAIN results : opt[m].step = PasosTotales
    /\ pc \in {"save", "done"} =>
         \A i \in 1..Len(Modelos(notebook)) : opt[Modelos(notebook)[i]].step = PasosTotales

\* C4: every run of a notebook stops (it ends or a statement raises), and the
\* state part above holds throughout.
C4_TerminaTrasEpochs == []C4_Estado /\ <>Terminated

\* C4 witness: a notebook has run to its end with more than one epoch and more
\* than one training batch.
C4_Witness ==
    /\ pc = "done"
    /\ epochs >= 2
    /\ nTrain >= 2
    /\ \A i \in 1..Len(Modelos(notebook)) : opt[Modelos(notebook)[i]].step = PasosTotales

\* C5: a training batch runs zero_grad, forward, criterion, backward, step in
\* this order; when backward starts no parameter of the optimizer has a
\* gradient; when the optimizer steps, the gradient of every parameter it
\* updates is the gradient of the loss of the current batch under the current
\* weights alone.
C5_Paso ==
    /\ (pc = "zero_grad" /\ pc' # "failed") => pc' = "forward"
    /\ (pc = "forward" /\ pc' # "failed") => pc' = "criterion"
    /\ (pc = "criterion" /\ pc' # "failed") => pc' = "backward"
    /\ (pc = "backward" /\ pc' # "failed") => pc' = "step"
    /\ pc' = "zero_grad" => pc = "for_train"
    /\ pc' = "backward" =>
         \A l \in opt'[Actual'].params : l \notin DOMAIN grad'[Actual']
    /\ pc' = "step" =>
         /\ StepTargets(Actual)' = opt'[Actual'].params
         /\ \A l \in opt'[Actual'].params :
              grad'[Actual'][l]
                = LossGradient(Forward(Actual, batch.images)', batch'.labels)

\* C5: every step of a run keeps the order zero_grad, forward, criterion,
\* backward, step, and hands the optimizer the current batch's gradient only.
C5_GradienteDelBatch == [][C5_Paso]_vars

\* C5 witness: an optimizer step is about to run for a batch that is not the
\* first of the training, with a gradient that is not zero.
C5_Witness ==
    /\ pc = "step"
    /\ opt[Actual].step >= 1
    /\ \E l \in opt[Actual].params : grad[Actual][l] # 0

\* C6: while a training batch is processed the model is in training mode with
\* gradients enabled; while a validation batch is processed it is in evaluation
\* mode with gradients disabled; during the validation phase of an epoch every
\* training batch of that epoch has been processed.
C6_Modos ==
    /\ pc \in TrainBatchPcs => training[Actual] /\ grad_enabled
    /\ pc \in ValBatchPcs => ~training[Actual] /\ ~grad_enabled
    /\ pc \in ValPhasePcs =>
         /\ train_iter = <<>>
         /\ Len(Evaluaciones(Actual, epoch, "train")) = nTrain
         /\ opt[Actual].step = (epoch + 1) * nTrain
    /\ pc \in TrainBatchPcs => Len(Evaluaciones(Actual, epoch, "val")) = 0

\* C6 witness: a validation batch of a second epoch is being processed.
C6_Witness ==
    /\ pc = "val_criterion"
    /\ epoch >= 1
    /\ ~training[Actual]

\* C7: the training loss recorded for an epoch is the sum of the losses of that
\* epoch's training batches divided by the number of training batches, the
\* validation loss likewise; each accumulator is 0 when its phase starts.
C7_Promedios ==
    /\ pc \in LoopPcs =>
         /\ \A k \in 1..Len(train_losses) :
              train_losses[k] = TrueDiv(SumaLosses(Actual, k - 1, "train"), nTrain)
         /\ \A k \in 1..Len(val_losses) :
              val_losses[k] = TrueDiv(SumaLosses(Actual, k - 1, "val"), nVal)
    /\ \A m \in DOMAIN results :
         /\ \A k \in 1..Len(results[m].train_losses) :
              results[m].train_losses[k] = TrueDiv(SumaLosses(m, k - 1, "train"), nTrain)
         /\ \A k \in 1..Len(results[m].val_losses) :
              results[m].val_losses[k] = TrueDiv(SumaLosses(m, k - 1, "val"), nVal)
    /\ pc = "iter_train" => running_loss = 0
    /\ pc = "no_grad" => val_loss = <<0, 1>>

\* C7 witness: a second epoch has recorded both losses after a first epoch
\* whose losses were not zero.
C7_Witness ==
    /\ pc = "print"
    /\ epoch = 1
    /\ nTrain >= 2
    /\ SumaLosses(Actual, 0, "train") > 0
    /\ SumaLosses(Actual, 0, "val") > 0
    /\ Len(train_losses) = 2
    /\ Len(val_losses) = 2

\* C8: the files of a notebook's models are distinct; a file that exists has
\* been written exactly once and holds the state_dict of its own model, which
\* has run all its optimizer steps; when the notebook has ended every model's
\* file exists, and no other file was written.
C8_ArchivosPropios ==
    LET n == Len(Modelos(notebook))
    IN  /\ \A i, j \in 1..n : i # j => FileName(notebook, i) # FileName(notebook, j)
        /\ DOMAIN files \subseteq {FileName(notebook, i) : i \in 1..n}
        /\ \A i \in 1..n :
             FileName(notebook, i) \in DOMAIN files =>
                /\ files[FileName(notebook, i)].writes = 1
                /\ files[FileName(notebook, i)].data = StateDict(Modelos(notebook)[i])
                /\ opt[Modelos(notebook)[i]].step = PasosTotales
        /\ pc = "done" => \A i \in 1..n : FileName(notebook, i) \in DOMAIN files

\* C8 witness: the combined notebook has ended with its three files written.
C8_Witness ==
    /\ pc = "done"
    /\ notebook = "combinados"
    /\ Cardinality(DOMAIN files) = 3
    /\ files["model_resnet18.pth"].data # files["model_resnet34.pth"].data

\* C9: in the combined notebook a model is instantiated only when the training
\* of the model before it has returned, and a weights file exists only when
\* all three trainings have returned; so a notebook that failed before its
\* save cell has written no file.
C9_PipelineLineal ==
    notebook = "combinados" =>
        LET ms == Modelos(notebook)
        IN  /\ \A i \in 2..Len(ms) : ms[i] \in Instanciados => ms[i - 1] \in DOMAIN results
            /\ DOMAIN files # {} => \A i \in 1..Len(ms) : ms[i] \in DOMAIN results
            /\ (pc = "failed" /\ \E i \in 1..Len(ms) : ms[i] \notin DOMAIN results)
                 => DOMAIN files = {}

\* C9 witness: the combined notebook failed while its last model was being
\* trained, after optimizer steps on it.
C9_Witness ==
    /\ notebook = "combinados"
    /\ pc = "failed"
    /\ "vgg19" \in DOMAIN opt
    /\ opt["vgg19"].step >= 1
    /\ "vgg19" \notin DOMAIN results
    /\ DOMAIN files = {}

====
